---- MODULE Spec2Model ----
(***************************************************************************)
(* Model of PlayingCardEntropySource.py: conversion between a list of 31   *)
(* distinct playing cards and an integer in a drifting (falling factorial) *)
(* base, with the validation that precedes it.                             *)
(*                                                                         *)
(* Python integers are unbounded.  They are modelled as little-endian      *)
(* sequences of limbs in base 16^3 without a most significant zero limb    *)
(* (zero is the empty sequence), so that no value is ever truncated.       *)
(* Python strings are modelled as sequences of one-character strings.      *)
(***************************************************************************)
EXTENDS Integers, Sequences, FiniteSets, TLC

\* ------------------------------------------------------------------------
\* Python control flow
\* ------------------------------------------------------------------------
\* "for i in range(lo, hi + 1): st = Body(i, st)" on loop states that carry
\* the name of the exception raised in the field exc ("" when none): an
\* exception ends the loop and is the state the loop leaves.  The range is
\* halved so that the evaluation nests in the logarithm of its length; the
\* iterations are applied in increasing order of i all the same.
RECURSIVE Loop(_, _, _, _)
Loop(Body(_, _), lo, hi, st) ==
    IF st.exc # "" \/ lo > hi THEN st
    ELSE IF lo = hi THEN Body(lo, st)
    ELSE LET mid == (lo + hi) \div 2
             left == Loop(Body, lo, mid, st)
         IN  IF left.exc # "" THEN left ELSE Loop(Body, mid + 1, hi, left)

\* ------------------------------------------------------------------------
\* Unbounded non-negative integers (Python int)
\* ------------------------------------------------------------------------
\* one limb holds three hexadecimal digits
LimbBase == 16 * 16 * 16

Max(S) == CHOOSE m \in S : \A k \in S : k <= m

\* drop the most significant zero limbs
BigNorm(a) ==
    LET nz == {i \in 1..Len(a) : a[i] # 0}
    IN  IF nz = {} THEN << >> ELSE SubSeq(a, 1, Max(nz))

\* a machine-sized n >= 0 as an unbounded integer
BigFromNat(n) ==
    BigNorm(<<n % LimbBase, (n \div LimbBase) % LimbBase,
              n \div (LimbBase * LimbBase)>>)

BigLimb(a, i) == IF i <= Len(a) THEN a[i] ELSE 0

\* a + b; the carry into limb i is found by carry look-ahead: some lower
\* limb j generates a carry and every limb between j and i propagates it
BigAdd(a, b) ==
    IF Len(a) = 0 THEN b
    ELSE IF Len(b) = 0 THEN a
    ELSE
    LET n == IF Len(a) > Len(b) THEN Len(a) ELSE Len(b)
        s == [i \in 1..(n + 1) |-> BigLimb(a, i) + BigLimb(b, i)]
        carry(i) == \E j \in 1..(i - 1) :
                        /\ s[j] >= LimbBase
                        /\ \A k \in (j + 1)..(i - 1) : s[k] = LimbBase - 1
    IN  BigNorm([i \in 1..(n + 1) |->
                    (s[i] + (IF carry(i) THEN 1 ELSE 0)) % LimbBase])

\* a * m for 0 <= m < LimbBase: the low and the high halves of the limb
\* products are added
BigMulSmall(a, m) ==
    IF Len(a) = 0 \/ m = 0 THEN << >>
    ELSE BigAdd(BigNorm([i \in 1..Len(a) |-> (a[i] * m) % LimbBase]),
                BigNorm(<<0>> \o [i \in 1..Len(a) |-> (a[i] * m) \div LimbBase]))

\* a > b
BigGreater(a, b) ==
    \/ Len(a) > Len(b)
    \/ /\ Len(a) = Len(b)
       /\ \E i \in 1..Len(a) :
            /\ a[i] > b[i]
            /\ \A k \in (i + 1)..Len(a) : a[k] = b[k]

\* a - b for a >= b, by borrow look-ahead
BigSub(a, b) ==
    IF Len(b) = 0 THEN a
    ELSE
    LET borrow(i) == \E j \in 1..(i - 1) :
                        /\ a[j] < BigLimb(b, j)
                        /\ \A k \in (j + 1)..(i - 1) : a[k] = BigLimb(b, k)
    IN  BigNorm([i \in 1..Len(a) |->
                    (a[i] + 2 * LimbBase - BigLimb(b, i)
                        - (IF borrow(i) THEN 1 ELSE 0)) % LimbBase])

\* a * LimbBase^k
BigShift(a, k) ==
    IF Len(a) = 0 THEN << >> ELSE [j \in 1..k |-> 0] \o a

\* a * b[lo..hi] * LimbBase^(lo-1): the sum of the partial products
RECURSIVE BigMulRange(_, _, _, _)
BigMulRange(a, b, lo, hi) ==
    IF lo = hi
    THEN BigShift(BigMulSmall(a, b[lo]), lo - 1)
    ELSE LET mid == (lo + hi) \div 2
         IN  BigAdd(BigMulRange(a, b, lo, mid), BigMulRange(a, b, mid + 1, hi))

\* a * b
BigMul(a, b) ==
    IF Len(a) = 0 \/ Len(b) = 0 THEN << >> ELSE BigMulRange(a, b, 1, Len(b))

\* the largest d in 0..15 with (q + d * unit) * b <= r, given q * b <= r
BigQuotDigit(r, b, q, unit) ==
    Max({d \in 0..15 : ~BigGreater(BigMulSmall(b, q + d * unit), r)})

\* the largest q in 0..(LimbBase - 1) with q * b <= r, for r < b * LimbBase,
\* found one hexadecimal digit at a time from the top
BigQuotLimb(r, b) ==
    LET q2 == 256 * BigQuotDigit(r, b, 0, 256)
        q1 == q2 + 16 * BigQuotDigit(r, b, q2, 16)
    IN  q1 + BigQuotDigit(r, b, q1, 1)

\* one step of long division: bring the limb down to the running
\* remainder and find the next quotient limb
BigDivModStep(limb, b, st) ==
    LET r == BigNorm(<<limb>> \o st.remainder)
        q == IF BigGreater(b, r) THEN 0 ELSE BigQuotLimb(r, b)
    IN  [exc |-> "", quotient |-> <<q>> \o st.quotient,
         remainder |-> BigSub(r, BigMulSmall(b, q))]

\* a // b and a % b for b > 0, by long division from the top limb of a
BigDivMod(a, b) ==
    LET n == Len(a)
        Body(k, st) == BigDivModStep(a[n + 1 - k], b, st)
        st == Loop(Body, 1, n, [exc |-> "", quotient |-> << >>,
                                remainder |-> << >>])
    IN  [quotient |-> BigNorm(st.quotient), remainder |-> st.remainder]

\* a // b for b > 0
BigDiv(a, b) == BigDivMod(a, b).quotient

\* a // d and a % d for 0 < d < LimbBase, limb by limb from the top
BigDivModSmall(a, d) ==
    LET n == Len(a)
        Body(k, st) ==
            LET t == st.remainder * LimbBase + a[n + 1 - k]
            IN  [exc |-> "", quotient |-> <<t \div d>> \o st.quotient,
                 remainder |-> t % d]
        st == Loop(Body, 1, n, [exc |-> "", quotient |-> << >>,
                                remainder |-> 0])
    IN  [quotient |-> BigNorm(st.quotient), remainder |-> st.remainder]

\* lo * (lo + 1) * ... * hi for 1 <= lo <= hi
RECURSIVE BigProduct(_, _)
BigProduct(lo, hi) ==
    IF lo = hi
    THEN BigFromNat(lo)
    ELSE LET mid == (lo + hi) \div 2
         IN  BigMul(BigProduct(lo, mid), BigProduct(mid + 1, hi))

\* math.factorial
factorial(n) == IF n = 0 THEN <<1>> ELSE BigProduct(1, n)

\* ------------------------------------------------------------------------
\* Python built-ins on strings and lists
\* ------------------------------------------------------------------------
Min(S) == CHOOSE m \in S : \A k \in S : m <= k

Range(seq) == {seq[i] : i \in 1..Len(seq)}

\* list.index: the position of the first occurrence, counted from 1
IndexOf(seq, x) == Min({i \in 1..Len(seq) : seq[i] = x})

\* list.remove / list.pop: the list without its element at position i
RemoveAt(seq, i) == SubSeq(seq, 1, i - 1) \o SubSeq(seq, i + 1, Len(seq))

Whitespace == {" ", "\t", "\n"}

LowerCase == <<"a", "b", "c", "d", "e", "f", "h", "j", "k", "q", "s", "t", "x">>
UpperCase == <<"A", "B", "C", "D", "E", "F", "H", "J", "K", "Q", "S", "T", "X">>

\* str.upper, one character
UpperChar(c) ==
    IF c \in Range(LowerCase) THEN UpperCase[IndexOf(LowerCase, c)] ELSE c

\* str.upper
upper(str) == [i \in 1..Len(str) |-> UpperChar(str[i])]

HexUpper == <<"0", "1", "2", "3", "4", "5", "6", "7", "8", "9",
              "A", "B", "C", "D", "E", "F">>
HexLower == <<"0", "1", "2", "3", "4", "5", "6", "7", "8", "9",
              "a", "b", "c", "d", "e", "f">>

IsHexChar(c) == c \in Range(HexUpper) \/ c \in Range(HexLower)

HexValue(c) ==
    IF c \in Range(HexUpper) THEN IndexOf(HexUpper, c) - 1
    ELSE IndexOf(HexLower, c) - 1

\* the hexadecimal digits of a literal, most significant first, as an integer
HexDigitsToBig(digits) ==
    LET m == Len(digits)
        digit(p) == IF p >= 1 THEN HexValue(digits[p]) ELSE 0
    IN  BigNorm([j \in 1..((m + 2) \div 3) |->
                    digit(m - 3 * (j - 1))
                    + 16 * digit(m - 3 * (j - 1) - 1)
                    + 256 * digit(m - 3 * (j - 1) - 2)])

\* int(str, 16) that reads the hexadecimal digits a string starts with
\* and stops at the first other character
int16_prefix(str) ==
    LET stops == {p \in 1..Len(str) : ~IsHexChar(str[p])}
        digits == IF stops = {} THEN str ELSE SubSeq(str, 1, Min(stops) - 1)
    IN  IF digits = << >>
        THEN [exc |-> "ValueError", value |-> << >>]
        ELSE [exc |-> "", value |-> HexDigitsToBig(digits)]

\* int(str, 16) on a string without whitespace, sign or underscore: an
\* optional 0x / 0X prefix, then one or more hexadecimal digits
int16(str) ==
    LET digits == IF Len(str) >= 2 /\ str[1] = "0" /\ str[2] \in {"x", "X"}
                  THEN SubSeq(str, 3, Len(str))
                  ELSE str
    IN  IF Len(digits) = 0 \/ \E i \in 1..Len(digits) : ~IsHexChar(digits[i])
        THEN [exc |-> "ValueError", value |-> << >>]
        ELSE [exc |-> "", value |-> HexDigitsToBig(digits)]

\* hex(value)[2:]: lower-case digits, no leading zero, "0" for zero
hex(value) ==
    IF Len(value) = 0 THEN <<"0">>
    ELSE LET n == Len(value)
             digit(p) == LET j == n - ((p - 1) \div 3)
                             t == 2 - ((p - 1) % 3)
                         IN  (value[j] \div (IF t = 2 THEN 256
                                             ELSE IF t = 1 THEN 16 ELSE 1)) % 16
             first == Min({p \in 1..(3 * n) : digit(p) # 0})
         IN  [p \in 1..(3 * n - first + 1) |-> HexLower[digit(p + first - 1) + 1]]

\* " ".join(cards) for two-character cards
join(cards) ==
    [p \in 1..(IF Len(cards) = 0 THEN 0 ELSE 3 * Len(cards) - 1) |->
        IF (p - 1) % 3 = 2 THEN " " ELSE cards[((p - 1) \div 3) + 1][((p - 1) % 3) + 1]]

\* "".join(argument.split())
nonwhitespace(argument) ==
    LET Keep(c) == c \notin Whitespace IN SelectSeq(argument, Keep)

\* ------------------------------------------------------------------------
\* Module constants
\* ------------------------------------------------------------------------
DeckSize == 52
NumCards == 31
NumChars == 62

FACTORIAL_52 == factorial(DeckSize)
UPPER_LIMIT == BigSub(BigDiv(FACTORIAL_52, factorial(DeckSize - NumCards)), <<1>>)
CARD_RANKS == <<"A", "2", "3", "4", "5", "6", "7", "8", "9", "T", "J", "Q", "K">>
CARD_SUITS == <<"S", "H", "D", "C">>

\* [(rank + suit) for suit in CARD_SUITS for rank in CARD_RANKS]
CanonicalDeck ==
    [k \in 1..(Len(CARD_SUITS) * Len(CARD_RANKS)) |->
        <<CARD_RANKS[((k - 1) % Len(CARD_RANKS)) + 1],
          CARD_SUITS[((k - 1) \div Len(CARD_RANKS)) + 1]>>]

\* FACTORIAL_52 // factorial(52-n), the multiple of column n (from 0)
ColumnMultiple == [n \in 0..(NumCards - 1) |->
                      BigDiv(FACTORIAL_52, factorial(DeckSize - n))]

\* ------------------------------------------------------------------------
\* Validation
\* ------------------------------------------------------------------------
\* enforce_62_characters that lets one character too many through
enforce_62_characters_lax(argument) ==
    IF Len(argument) < NumChars THEN "TooFewCardsError"
    ELSE IF Len(argument) > NumChars + 1 THEN "TooManyCardsError"
    ELSE ""

\* the exception enforce_62_characters raises, "" when it returns
enforce_62_characters(argument) ==
    IF Len(argument) < NumChars THEN "TooFewCardsError"
    ELSE IF Len(argument) > NumChars THEN "TooManyCardsError"
    ELSE ""

\* [cleanString[i:i+2] for i in range(0, 62, 2)]
SplitCards(cleanString) ==
    [n \in 1..NumCards |-> <<cleanString[2 * n - 1], cleanString[2 * n]>>]

\* check_if_cards that looks at the suit of a card before its rank
check_if_cards_suit_first(listOfCards) ==
    LET bad == {n \in 1..Len(listOfCards) :
                    \/ listOfCards[n][1] \notin Range(CARD_RANKS)
                    \/ listOfCards[n][2] \notin Range(CARD_SUITS)}
    IN  IF bad = {} THEN ""
        ELSE IF listOfCards[Min(bad)][2] \notin Range(CARD_SUITS)
        THEN "UnrecognisedCardSuitError"
        ELSE "UnrecognisedCardRankError"

\* the exception check_if_cards raises, "" when it returns: the cards are
\* visited in order, the rank of a card is looked at before its suit
check_if_cards(listOfCards) ==
    LET bad == {n \in 1..Len(listOfCards) :
                    \/ listOfCards[n][1] \notin Range(CARD_RANKS)
                    \/ listOfCards[n][2] \notin Range(CARD_SUITS)}
    IN  IF bad = {} THEN ""
        ELSE IF listOfCards[Min(bad)][1] \notin Range(CARD_RANKS)
        THEN "UnrecognisedCardRankError"
        ELSE "UnrecognisedCardSuitError"

\* check_for_card_repetition that lets one repeated card through
check_for_card_repetition_lax(listOfCards) ==
    IF Cardinality(Range(listOfCards)) < NumCards - 1
    THEN "DuplicatedCardsError"
    ELSE ""

\* the exception check_for_card_repetition raises, "" when it returns
check_for_card_repetition(listOfCards) ==
    IF Cardinality(Range(listOfCards)) # NumCards
    THEN "DuplicatedCardsError"
    ELSE ""

\* string_to_card_list: the exception raised ("" when none) and the list
string_to_card_list(cleanString) ==
    IF enforce_62_characters(cleanString) # ""
    THEN [exc |-> enforce_62_characters(cleanString), cards |-> << >>]
    ELSE LET listOfCards == SplitCards(cleanString)
         IN  IF check_if_cards(listOfCards) # ""
             THEN [exc |-> check_if_cards(listOfCards), cards |-> << >>]
             ELSE IF check_for_card_repetition(listOfCards) # ""
             THEN [exc |-> check_for_card_repetition(listOfCards),
                   cards |-> << >>]
             ELSE [exc |-> "", cards |-> listOfCards]

\* enforce_upper_limit with the comparison >= in place of >
enforce_upper_limit_ge(value) ==
    IF ~BigGreater(UPPER_LIMIT, value) THEN "HexValueTooLargeError" ELSE ""

\* the exception enforce_upper_limit raises, "" when it returns
enforce_upper_limit(value) ==
    IF BigGreater(value, UPPER_LIMIT) THEN "HexValueTooLargeError" ELSE ""

\* ------------------------------------------------------------------------
\* Conversion.  deck is the list the name ALL_CARDS is bound to when the
\* call starts: "deck = ALL_CARDS" binds a second name to that same list,
\* so what the call removes from deck is removed from ALL_CARDS.  Each
\* function yields the exception raised ("" when none), the string returned
\* and the list ALL_CARDS is left bound to.
\* ------------------------------------------------------------------------
card_list_to_hex(deck0, listOfCards) ==
    LET Take(i, st) ==
            IF listOfCards[i] \notin Range(st.deck)
            THEN [st EXCEPT !.exc = "ValueError"]
            ELSE LET at == IndexOf(st.deck, listOfCards[i])
                 IN  [exc |-> "",
                      listOfNumbers |-> Append(st.listOfNumbers, at - 1),
                      deck |-> RemoveAt(st.deck, at)]
        taken == Loop(Take, 1, Len(listOfCards),
                      [exc |-> "", listOfNumbers |-> << >>, deck |-> deck0])
        Scale(n, st) ==
            IF n > Len(st.listOfNumbers)
            THEN [st EXCEPT !.exc = "IndexError"]
            ELSE [st EXCEPT !.listOfNumbers[n] =
                        BigMulSmall(ColumnMultiple[n - 1],
                                    taken.listOfNumbers[n])]
        scaled == Loop(Scale, 1, NumCards,
                       [exc |-> "",
                        listOfNumbers |-> [n \in 1..Len(taken.listOfNumbers) |->
                                  BigFromNat(taken.listOfNumbers[n])]])
        Add(n, st) == [exc |-> "",
                       total |-> BigAdd(st.total, scaled.listOfNumbers[n])]
        result == Loop(Add, 1, Len(scaled.listOfNumbers),
                       [exc |-> "", total |-> << >>]).total
    IN  IF taken.exc # ""
        THEN [exc |-> taken.exc, out |-> << >>, deck |-> taken.deck]
        ELSE IF scaled.exc # ""
        THEN [exc |-> scaled.exc, out |-> << >>, deck |-> taken.deck]
        ELSE [exc |-> "", out |-> hex(result), deck |-> taken.deck]

valid_integer_to_card_string(deck0, value0) ==
    LET Divide(n, st) ==
            LET qr == BigDivModSmall(st.value, DeckSize - (n - 1))
            IN  [exc |-> "", value |-> qr.quotient,
                 listOfNumbers |-> Append(st.listOfNumbers, qr.remainder)]
        divided == Loop(Divide, 1, NumCards,
                        [exc |-> "", value |-> value0, listOfNumbers |-> << >>])
        Pop(n, st) ==
            LET cardNumber == divided.listOfNumbers[n]
            IN  IF cardNumber >= Len(st.deck)
                THEN [st EXCEPT !.exc = "IndexError"]
                ELSE [exc |-> "",
                      listOfCards |-> Append(st.listOfCards,
                                             st.deck[cardNumber + 1]),
                      deck |-> RemoveAt(st.deck, cardNumber + 1)]
        popped == Loop(Pop, 1, Len(divided.listOfNumbers),
                       [exc |-> "", listOfCards |-> << >>, deck |-> deck0])
    IN  IF popped.exc # ""
        THEN [exc |-> popped.exc, out |-> << >>, deck |-> popped.deck]
        ELSE [exc |-> "", out |-> join(popped.listOfCards), deck |-> popped.deck]

string_to_hex(deck0, cleanString) ==
    LET parsed == string_to_card_list(cleanString)
    IN  IF parsed.exc # ""
        THEN [exc |-> parsed.exc, out |-> << >>, deck |-> deck0]
        ELSE card_list_to_hex(deck0, parsed.cards)

integer_to_card_string(deck0, value) ==
    IF enforce_upper_limit(value) # ""
    THEN [exc |-> enforce_upper_limit(value), out |-> << >>, deck |-> deck0]
    ELSE valid_integer_to_card_string(deck0, value)

\* decide_how_to_convert: the function the string is routed to and what
\* comes of the call; out is the line printed
decide_how_to_convert(deck0, inputString) ==
    LET cleanString == upper(nonwhitespace(inputString))
        parsed == int16(cleanString)
    IN  IF parsed.exc # ""
        THEN [route |-> "string_to_hex"] @@ string_to_hex(deck0, cleanString)
        ELSE [route |-> "integer_to_card_string"]
                @@ integer_to_card_string(deck0, parsed.value)

\* ------------------------------------------------------------------------
\* Bounds and inputs
\* ------------------------------------------------------------------------
\* calls made in one process (one import of the module)
MaxCalls == 2
\* card lists start at the deck positions 0..MaxStart
MaxStart == 1
\* integers lie within MaxSmall steps of 0 and of UPPER_LIMIT
MaxSmall == 1
\* strings are up to MaxDelta characters shorter or longer than 62
MaxDelta == 2

\* the cards at the deck positions start, start + step, ... (modulo 52);
\* pairwise distinct when step has no factor in common with 52
Stride(start, step) ==
    [n \in 1..NumCards |->
        CanonicalDeck[((start + (n - 1) * step) % DeckSize) + 1]]

First31 == Stride(0, 1)
Last31Rev == Stride(DeckSize - 1, DeckSize - 1)

\* valid card lists: 31 pairwise distinct cards
CardInputs ==
    {Stride(start, step) : start \in 0..MaxStart, step \in {1, 3}}
        \cup {Last31Rev}

\* the cards written one after the other
Text(cards) ==
    [p \in 1..(2 * Len(cards)) |-> cards[(p + 1) \div 2][2 - (p % 2)]]

\* str with the character at position p replaced by ch
Replace(str, p, ch) == [str EXCEPT ![p] = ch]

\* integers up to UPPER_LIMIT, and above it
ValidInts ==
    {BigFromNat(k * DeckSize) : k \in 0..MaxSmall}
        \cup {BigSub(UPPER_LIMIT, BigFromNat(k)) : k \in 0..MaxSmall}
TooLargeInts ==
    {BigAdd(UPPER_LIMIT, BigFromNat(k)) : k \in 1..(MaxSmall + 1)}
        \cup {BigShift(<<1>>, Len(UPPER_LIMIT))}

\* cleaned strings handed to string_to_hex: every valid list, and one
\* string for each way validation fails
CleanInputs ==
    {Text(cards) : cards \in CardInputs}
        \cup {SubSeq(Text(First31), 1, NumChars - 2),
              Text(First31) \o <<"A", "C">>,
              Replace(Text(First31), 1, "1"),
              Replace(Text(First31), 2, "X"),
              Replace(Text(First31), 3, "A")}

\* str.lower on the letters of cards and hexadecimal digits
lower(str) ==
    [i \in 1..Len(str) |->
        IF str[i] \in Range(UpperCase)
        THEN LowerCase[IndexOf(UpperCase, str[i])] ELSE str[i]]

\* command lines: card lists as the program prints them, in either case,
\* and hexadecimal numbers as the program prints them, in either case
RawInputs ==
    {join(cards) : cards \in {First31, Last31Rev}}
        \cup {lower(join(First31))}
        \cup {hex(v) : v \in ValidInts \cup TooLargeInts}
        \cup {upper(hex(UPPER_LIMIT))}

\* ------------------------------------------------------------------------
\* State: one process that has imported the module
\* ------------------------------------------------------------------------
VARIABLES
    ALL_CARDS,  \* the list the module-level name ALL_CARDS is bound to
    last,       \* the latest call: its arguments and what came of it
    before,     \* the call before it
    ncalls      \* calls made so far

vars == <<ALL_CARDS, last, before, ncalls>>

\* op: the function called; text, cards, value: its argument (the other
\* two are empty); exc: the exception it raised, "" when it returned;
\* out: the string returned or printed; list: the list returned;
\* route: the function decide_how_to_convert handed the string to
NoCall ==
    [op |-> "", text |-> << >>, cards |-> << >>, value |-> << >>,
     exc |-> "", out |-> << >>, list |-> << >>, route |-> ""]

Init ==
    /\ ALL_CARDS = CanonicalDeck
    /\ last = NoCall
    /\ before = NoCall
    /\ ncalls = 0

\* the call recorded, the list ALL_CARDS is bound to afterwards
Record(call, outcome) ==
    /\ last' = [NoCall EXCEPT !.op = call.op, !.text = call.text,
                              !.cards = call.cards, !.value = call.value,
                              !.exc = outcome.exc, !.out = outcome.out,
                              !.route = outcome.route]
    /\ ALL_CARDS' = outcome.deck
    /\ before' = last
    /\ ncalls' = ncalls + 1

NoRoute == [route |-> ""]

\* the cards of a printed card string: str.split()
split(str) ==
    [n \in 1..((Len(str) + 1) \div 3) |-> <<str[3 * n - 2], str[3 * n - 1]>>]

\* a caller may hand the string a conversion returned to the inverse one
ReturnedCards ==
    IF last.op \in {"valid_integer_to_card_string", "integer_to_card_string"}
       /\ last.exc = ""
    THEN {split(last.out)} ELSE {}

ReturnedInts ==
    IF last.op \in {"card_list_to_hex", "string_to_hex"} /\ last.exc = ""
    THEN {int16(last.out).value} ELSE {}

CallCardListToHex ==
    /\ ncalls < MaxCalls
    /\ \E cards \in CardInputs \cup ReturnedCards :
        \E outcome \in {card_list_to_hex(ALL_CARDS, cards)} :
            Record([NoCall EXCEPT !.op = "card_list_to_hex",
                                     !.cards = cards],
                      NoRoute @@ outcome)

CallValidIntegerToCardString ==
    /\ ncalls < MaxCalls
    /\ \E value \in ValidInts \cup ReturnedInts :
        \E outcome \in {valid_integer_to_card_string(ALL_CARDS, value)} :
            Record([NoCall EXCEPT !.op = "valid_integer_to_card_string",
                                     !.value = value],
                      NoRoute @@ outcome)

CallStringToHex ==
    /\ ncalls < MaxCalls
    /\ \E cleanString \in CleanInputs :
        \E outcome \in {string_to_hex(ALL_CARDS, cleanString)} :
            Record([NoCall EXCEPT !.op = "string_to_hex",
                                     !.text = cleanString],
                      NoRoute @@ outcome)

CallIntegerToCardString ==
    /\ ncalls < MaxCalls
    /\ \E value \in ValidInts \cup TooLargeInts \cup ReturnedInts :
        \E outcome \in {integer_to_card_string(ALL_CARDS, value)} :
            Record([NoCall EXCEPT !.op = "integer_to_card_string",
                                     !.value = value],
                      NoRoute @@ outcome)

CallDecideHowToConvert ==
    /\ ncalls < MaxCalls
    /\ \E inputString \in RawInputs :
        \E outcome \in {decide_how_to_convert(ALL_CARDS, inputString)} :
            Record([NoCall EXCEPT !.op = "decide_how_to_convert",
                                     !.text = inputString],
                      outcome)

Next ==
    \/ CallCardListToHex
    \/ CallValidIntegerToCardString
    \/ CallStringToHex
    \/ CallIntegerToCardString
    \/ CallDecideHowToConvert

Spec == Init /\ [][Next]_vars

\* ------------------------------------------------------------------------
\* One conversion in a fresh process: the command line hands its argument
\* to decide_how_to_convert once; a caller of the module may hand a cleaned
\* string to string_to_card_list, which reads and writes no module state
\* ------------------------------------------------------------------------
\* double faults are placed within the first MaxPos characters
MaxPos == 4

\* the cards all of whose characters are hexadecimal digits
HexCards ==
    [k \in 1..18 |-> <<CARD_RANKS[((k - 1) % 9) + 1],
                       CARD_SUITS[((k - 1) \div 9) + 3]>>]

\* 62 hexadecimal digits that split into 31 cards (some of them twice)
HexText == Text([n \in 1..NumCards |-> HexCards[((n - 1) % Len(HexCards)) + 1]])

BaseTexts == {Text(First31), Text(Stride(MaxStart, 3)), HexText}

FaultChars == {"A", "K", "T", "S", "H", "D", "C", "0", "1", "X"}

\* one character replaced anywhere
SingleFaults ==
    {Replace(b, p, ch) : b \in BaseTexts, p \in 1..NumChars, ch \in FaultChars}

\* two characters replaced near the start
DoubleFaults ==
    {Replace(Replace(b, p, c1), q, c2) :
        b \in BaseTexts, p \in 1..MaxPos, q \in 1..MaxPos, c1 \in {"1", "X"},
        c2 \in {"1", "X"}}

\* strings that are cut short or run on, whatever they hold
LengthFaults ==
    LET held == BaseTexts
                    \cup {Replace(b, p, ch) : b \in BaseTexts, p \in 1..3,
                                               ch \in {"1", "X", "A"}}
    IN  {SubSeq(t, 1, NumChars - d) : t \in held, d \in 1..MaxDelta}
            \cup {t \o SubSeq(u, 1, d) : t \in held,
                                         u \in {Text(Last31Rev), <<"1", "X", "1", "X">>},
                                         d \in 1..MaxDelta}
            \cup {<< >>}

ValidationTexts == BaseTexts \cup SingleFaults \cup DoubleFaults \cup LengthFaults

\* what is typed: the cleaned strings, and card lists with blanks or in
\* lower case
TypedTexts ==
    ValidationTexts
        \cup {join(split(join(SplitCards(b)))) : b \in BaseTexts}
        \cup {lower(b) : b \in BaseTexts}

CallStringToCardList ==
    /\ ncalls = 0
    /\ \E cleanString \in ValidationTexts :
        \E outcome \in {string_to_card_list(cleanString)} :
            /\ last' = [NoCall EXCEPT !.op = "string_to_card_list",
                                      !.text = cleanString,
                                      !.exc = outcome.exc,
                                      !.list = outcome.cards]
            /\ before' = last
            /\ ncalls' = ncalls + 1
            /\ UNCHANGED ALL_CARDS

Main ==
    /\ ncalls = 0
    /\ \E inputString \in TypedTexts :
        \E outcome \in {decide_how_to_convert(ALL_CARDS, inputString)} :
            Record([NoCall EXCEPT !.op = "decide_how_to_convert",
                                  !.text = inputString],
                   outcome)

NextValidation ==
    \/ CallStringToCardList
    \/ Main

SpecValidation == Init /\ [][NextValidation]_vars

\* ------------------------------------------------------------------------
\* Properties of the conversions (specification Spec)
\* ------------------------------------------------------------------------
Codec == {"card_list_to_hex", "valid_integer_to_card_string"}

\* C4: ALL_CARDS is never mutated: after any sequence of calls it still
\* holds the 52 cards in canonical order.
DeckNeverMutated == ALL_CARDS = CanonicalDeck

\* C1: decoding the integer card_list_to_hex returned for a valid card
\* list with valid_integer_to_card_string gives back the same 31 cards in
\* the same order.
RoundTripCards ==
    (/\ last.op = "valid_integer_to_card_string"
     /\ before.op = "card_list_to_hex"
     /\ before.exc = ""
     /\ last.value = int16(before.out).value)
        => (last.exc = "" /\ last.out = join(before.cards))

\* C2: integer_to_card_string of an integer in 0..UPPER_LIMIT returns 31
\* pairwise distinct cards, and card_list_to_hex of those cards returns the
\* integer again.
RoundTripInteger ==
    /\ (last.op = "integer_to_card_string"
        /\ ~BigGreater(last.value, UPPER_LIMIT))
            => /\ last.exc = ""
               /\ Len(split(last.out)) = NumCards
               /\ Cardinality(Range(split(last.out))) = NumCards
               /\ Range(split(last.out)) \subseteq Range(CanonicalDeck)
    /\ (/\ last.op = "card_list_to_hex"
        /\ before.op = "integer_to_card_string"
        /\ before.exc = ""
        /\ last.cards = split(before.out))
            => (last.exc = "" /\ int16(last.out).value = before.value)

\* what a call of a codec function returns, or raises, as the first call
\* of a fresh process
FirstCall(call) ==
    LET fresh == IF call.op = "card_list_to_hex"
                 THEN card_list_to_hex(CanonicalDeck, call.cards)
                 ELSE valid_integer_to_card_string(CanonicalDeck, call.value)
    IN  <<fresh.exc, fresh.out>>

\* C3: every card_list_to_hex and valid_integer_to_card_string call on a
\* valid input returns what it would return as the first call of a fresh
\* process, whatever was called before it.
CallsIndependent ==
    last.op \in Codec => <<last.exc, last.out>> = FirstCall(last)

\* C5: the value card_list_to_hex computes for a valid card list lies in
\* 0..UPPER_LIMIT; the first 31 cards of the deck give 0, the last 31 cards
\* in reverse order give UPPER_LIMIT.
EncodeWithinRange ==
    last.op = "card_list_to_hex"
        => /\ last.exc = ""
           /\ ~BigGreater(int16(last.out).value, UPPER_LIMIT)
           /\ last.cards = First31 => last.out = <<"0">>
           /\ last.cards = Last31Rev => int16(last.out).value = UPPER_LIMIT

\* C6: integer_to_card_string(v) raises HexValueTooLargeError exactly when
\* v > UPPER_LIMIT, and then no decoding step has run (nothing was taken
\* from the deck); for v <= UPPER_LIMIT the call goes on to decode v, so
\* what comes of it is what valid_integer_to_card_string makes of v.
UpperLimitEnforced ==
    [][last'.op = "integer_to_card_string" =>
        IF BigGreater(last'.value, UPPER_LIMIT)
        THEN /\ last'.exc = "HexValueTooLargeError"
             /\ last'.out = << >>
             /\ ALL_CARDS' = ALL_CARDS
        ELSE LET decoded == valid_integer_to_card_string(ALL_CARDS, last'.value)
             IN  /\ last'.exc # "HexValueTooLargeError"
                 /\ last'.exc = decoded.exc
                 /\ last'.out = decoded.out
                 /\ ALL_CARDS' = decoded.deck]_vars

\* UPPER_LIMIT + 1 was rejected and UPPER_LIMIT itself was decoded, both
\* as the first call of a process
UpperLimitWitness ==
    /\ last.op = "integer_to_card_string"
    /\ before.op = "integer_to_card_string"
    /\ before.value = BigAdd(UPPER_LIMIT, <<1>>)
    /\ before.exc = "HexValueTooLargeError"
    /\ last.value = UPPER_LIMIT
    /\ last.exc = ""
    /\ last.out = join(Last31Rev)

\* ------------------------------------------------------------------------
\* Properties of validation and dispatch (specification SpecValidation)
\* ------------------------------------------------------------------------
RankChars == {"A", "2", "3", "4", "5", "6", "7", "8", "9", "T", "J", "Q", "K"}
SuitChars == {"S", "H", "D", "C"}

\* token n (from 1) of a string: its characters 2n-1 and 2n
Token(str, n) == <<str[2 * n - 1], str[2 * n]>>

IsCard(token) == token[1] \in RankChars /\ token[2] \in SuitChars

\* the tokens of a 62-character string that are not cards
BadTokens(str) == {n \in 1..31 : ~IsCard(Token(str, n))}

\* some card is written twice
HasRepeat(str) ==
    \E m \in 1..31 : \E n \in (m + 1)..31 : Token(str, m) = Token(str, n)

\* 62 characters, 31 cards, no card twice
ValidCardText(str) ==
    Len(str) = 62 /\ BadTokens(str) = {} /\ ~HasRepeat(str)

\* C7: string_to_card_list raises TooFewCardsError for every string
\* shorter than 62 characters and TooManyCardsError for every longer one,
\* whatever the characters are.
LengthCheckedFirst ==
    last.op = "string_to_card_list"
        => /\ Len(last.text) < 62 => last.exc = "TooFewCardsError"
           /\ Len(last.text) > 62 => last.exc = "TooManyCardsError"
           /\ Len(last.text) = 62 =>
                last.exc \notin {"TooFewCardsError", "TooManyCardsError"}

\* a string one character too long that starts with a token of no rank and
\* no suit was rejected for its length
LengthCheckedFirstWitness ==
    /\ last.op = "string_to_card_list"
    /\ Len(last.text) = 63
    /\ last.text[1] = "1"
    /\ last.exc = "TooManyCardsError"

\* C8: string_to_card_list on 62 characters fails at the first token that
\* is not a card: with UnrecognisedCardRankError when its first character
\* is no rank, otherwise with UnrecognisedCardSuitError; it raises neither
\* when all 31 tokens are cards.
FirstBadTokenDecides ==
    (last.op = "string_to_card_list" /\ Len(last.text) = 62)
        => IF BadTokens(last.text) = {}
           THEN last.exc \notin {"UnrecognisedCardRankError",
                                 "UnrecognisedCardSuitError"}
           ELSE LET first == Token(last.text, Min(BadTokens(last.text)))
                IN  IF first[1] \notin RankChars
                    THEN last.exc = "UnrecognisedCardRankError"
                    ELSE last.exc = "UnrecognisedCardSuitError"

\* the first token has a rank and no suit, the second has no rank: the
\* call failed for the suit
FirstBadTokenWitness ==
    /\ last.op = "string_to_card_list"
    /\ Len(last.text) = 62
    /\ last.text[1] \in RankChars
    /\ last.text[2] = "X"
    /\ last.text[3] = "1"
    /\ last.exc = "UnrecognisedCardSuitError"

ValidationErrors ==
    {"TooFewCardsError", "TooManyCardsError", "UnrecognisedCardRankError",
     "UnrecognisedCardSuitError", "DuplicatedCardsError"}

\* C9: string_to_card_list on 62 characters that make 31 cards raises
\* DuplicatedCardsError exactly when a card is there twice, and otherwise
\* returns the 31 tokens in order; a string gets past validation to the
\* encoder only when it is 31 pairwise distinct cards.
DuplicatesRejected ==
    /\ (/\ last.op = "string_to_card_list"
        /\ Len(last.text) = 62
        /\ BadTokens(last.text) = {})
            => IF HasRepeat(last.text)
               THEN last.exc = "DuplicatedCardsError"
               ELSE /\ last.exc = ""
                    /\ last.list = [n \in 1..31 |-> Token(last.text, n)]
    /\ (/\ last.op = "decide_how_to_convert"
        /\ last.route = "string_to_hex"
        /\ last.exc \notin ValidationErrors)
            => ValidCardText(upper(nonwhitespace(last.text)))

\* 31 cards one of which is there twice were rejected
DuplicatesRejectedWitness ==
    /\ last.op = "string_to_card_list"
    /\ Len(last.text) = 62
    /\ BadTokens(last.text) = {}
    /\ Cardinality({Token(last.text, n) : n \in 1..31}) = 30
    /\ last.exc = "DuplicatedCardsError"

\* C10: a cleaned string of 31 pairwise distinct cards holds an H or an S,
\* does not parse as a base-16 integer, and is routed by
\* decide_how_to_convert to string_to_hex; no string both parses as a
\* base-16 integer and passes string_to_card_list.
DispatchUnambiguous ==
    last.op = "decide_how_to_convert"
        => LET cleanString == upper(nonwhitespace(last.text))
           IN  /\ ValidCardText(cleanString)
                    => /\ \E p \in 1..62 : cleanString[p] \in {"H", "S"}
                       /\ int16(cleanString).exc = "ValueError"
                       /\ last.route = "string_to_hex"
               /\ last.route = "integer_to_card_string"
                    => string_to_card_list(cleanString).exc # ""
               /\ last.route \in {"string_to_hex", "integer_to_card_string"}

\* 31 distinct cards typed with blanks between them were encoded
DispatchWitness ==
    /\ last.op = "decide_how_to_convert"
    /\ \E p \in 1..Len(last.text) : last.text[p] = " "
    /\ ValidCardText(upper(nonwhitespace(last.text)))
    /\ last.route = "string_to_hex"
    /\ last.exc = ""
    /\ last.out # << >>

====
